---- MODULE Spec2Model ----
(***************************************************************************)
(* A model of the OAuth helper of office-js-helpers: the Authenticator     *)
(* (cache check, endpoint lookup, the three transports, redirect parsing,  *)
(* state validation, code exchange) and the parts of EndpointManager and   *)
(* TokenManager it uses.                                                   *)
(*                                                                         *)
(* Strings that the code takes apart (URLs, redirect payloads) are         *)
(* sequences of symbols.  A symbol is one of the characters the code       *)
(* treats specially ("#", "?", "&", "=", "/"), a percent escape, or a run  *)
(* of ordinary characters ("access_token", "ABC", "https").    "%" alone    *)
(* stands for a percent sign that is not followed by two hex digits.       *)
(***************************************************************************)
EXTENDS Integers, Sequences, FiniteSets, TLC

(***************************************************************************)
(* Bounds of the model.                                                    *)
(***************************************************************************)
\* number of authenticate / useMicrosoftTeamsAuth calls made in one run
MaxCalls == 1
\* the secure random source yields values 0..MaxRandom (a Uint32 in the code)
MaxRandom == 1
\* the clock reads 0..MaxTime
MaxTime == 1
\* messages the host may deliver to one dialog's message handler
MaxMsgs == 2

CallIds == 1 .. MaxCalls
RandomValues == 0 .. MaxRandom
Times == 0 .. MaxTime

(***************************************************************************)
(* JavaScript string primitives, on sequences of symbols.                  *)
(***************************************************************************)
\* String.prototype.indexOf(sub): first position (1-based) or 0 for -1
IndexOf(s, sub) ==
    LET hits == {i \in 1 .. (Len(s) - Len(sub) + 1) :
                    SubSeq(s, i, i + Len(sub) - 1) = sub}
    IN  IF hits = {} THEN 0 ELSE CHOOSE i \in hits : \A j \in hits : i <= j

\* String.prototype.replace(sub, ''): the first occurrence only is removed
CutAt(s, i, n) ==
    IF i = 0 THEN s ELSE SubSeq(s, 1, i - 1) \o SubSeq(s, i + n, Len(s))

RemoveFirst(s, sub) == CutAt(s, IndexOf(s, sub), Len(sub))

\* String.prototype.split(d) for a one-symbol delimiter d
RECURSIVE Split(_, _)
SplitAt(s, d, i) ==
    IF i = 0 THEN <<s>>
    ELSE <<SubSeq(s, 1, i - 1)>> \o Split(SubSeq(s, i + 1, Len(s)), d)

Split(s, d) == SplitAt(s, d, IndexOf(s, <<d>>))

\* what one symbol decodes to under decodeURIComponent
DecodeSym(x) ==
    CASE x = "%2F" -> "/"
      [] x = "%3D" -> "="
      [] x = "%26" -> "&"
      [] OTHER -> x

\* decodeURIComponent throws URIError on a malformed escape
Malformed(s) == \E i \in 1 .. Len(s) : s[i] = "%"

RECURSIVE decodeURIComponent(_)
decodeURIComponent(s) ==
    IF s = <<>> THEN ""
    ELSE DecodeSym(Head(s)) \o decodeURIComponent(Tail(s))

\* unary plus on a parameter value (undefined is given as Undefined)
\* NaN: a value no number equals (the model's numbers are naturals)
NaN == 0 - 1
Undefined == "undefined?"
ToNumber(v) ==
    IF v = Undefined THEN NaN
    ELSE IF v = "" THEN 0
    ELSE LET ns == {n \in RandomValues : ToString(n) = v}
         IN  IF ns = {} THEN NaN ELSE CHOOSE n \in ns : TRUE

(***************************************************************************)
(* Authenticator._extractParams and Authenticator.getToken.                *)
(***************************************************************************)
Threw == [kind |-> "threw"]
Parsed(p) == [kind |-> "params", params |-> p]
NoParams == [kind |-> "undefined"]

\* last position of the maximal run from i of symbols outside stop
RECURSIVE RunEnd(_, _, _)
RunEnd(seg, i, stop) ==
    IF i > Len(seg) \/ seg[i] \in stop THEN i - 1
    ELSE RunEnd(seg, i + 1, stop)

\* the loop of _extractParams from position i: regex.exec over
\* /([^&=]+)=([^&]*)/g, and the assignment to params
RECURSIVE ExecFrom(_, _, _)
\* a loop that keeps the first value assigned to a key
MatchKeepingFirst(seg, i, keyEnd, valEnd, params) ==
    IF keyEnd >= i /\ keyEnd < Len(seg) /\ seg[keyEnd + 1] = "="
    THEN IF Malformed(SubSeq(seg, i, keyEnd)) \/ Malformed(SubSeq(seg, keyEnd + 2, valEnd))
         THEN Threw
         ELSE ExecFrom(seg, valEnd + 1,
                  params @@
                  (decodeURIComponent(SubSeq(seg, i, keyEnd))
                      :> decodeURIComponent(SubSeq(seg, keyEnd + 2, valEnd))))
    ELSE ExecFrom(seg, i + 1, params)

Match(seg, i, keyEnd, valEnd, params) ==
    IF keyEnd >= i /\ keyEnd < Len(seg) /\ seg[keyEnd + 1] = "="
    THEN IF Malformed(SubSeq(seg, i, keyEnd)) \/ Malformed(SubSeq(seg, keyEnd + 2, valEnd))
         THEN Threw
         ELSE ExecFrom(seg, valEnd + 1,
                  (decodeURIComponent(SubSeq(seg, i, keyEnd))
                      :> decodeURIComponent(SubSeq(seg, keyEnd + 2, valEnd)))
                  @@ params)
    ELSE ExecFrom(seg, i + 1, params)

MatchKey(seg, i, keyEnd, params) ==
    Match(seg, i, keyEnd, RunEnd(seg, keyEnd + 2, {"&"}), params)

ExecFrom(seg, i, params) ==
    IF i > Len(seg) THEN Parsed(params)
    ELSE MatchKey(seg, i, RunEnd(seg, i, {"&", "="}), params)

extractParams(segment) == ExecFrom(segment, 1, <<>>)

\* getToken from `if (rightPart.indexOf('?') !== -1)` on
QueryPart(rightPart) ==
    IF IndexOf(rightPart, <<"?">>) # 0
    THEN extractParams(Split(rightPart, "?")[2])
    ELSE extractParams(rightPart)

\* getToken from `if (parts.length <= 0)` on
RightPart(parts) ==
    IF Len(parts) <= 0 THEN NoParams
    ELSE QueryPart(RemoveFirst(IF Len(parts) >= 2 THEN parts[2] ELSE parts[1],
                               <<"/">>))

getToken(url, exclude, delimiter) ==
    RightPart(Split(IF exclude # <<>> THEN RemoveFirst(url, exclude) ELSE url,
                    delimiter))

(***************************************************************************)
(* Endpoint configurations and EndpointManager.                            *)
(***************************************************************************)
Providers == {"Google", "Custom"}

\* a field that is null / undefined
Null == <<"null?">>

Origin == <<"https", ":", "/", "/", "app">>
RedirectPage == Origin \o <<"/", "redirect">>
TokenEndpoint == <<"https", ":", "/", "/", "idp", "/", "token">>

\* the IEndpoint objects callers pass to add
Config(state, nonce, tokenUrl, redirectUrl) ==
    [ provider |-> "",
      clientId |-> <<"client">>,
      baseUrl |-> <<"https", ":", "/", "/", "idp">>,
      authorizeUrl |-> <<"/", "authorize">>,
      redirectUrl |-> redirectUrl,
      tokenUrl |-> tokenUrl,
      scope |-> <<"profile">>,
      resource |-> Null,
      state |-> state,
      nonce |-> nonce,
      responseType |-> <<"token">>,
      extraQueryParameters |-> Null ]

Configs ==
    { Config(st, no, tu, ru) :
        st \in BOOLEAN, no \in {FALSE}, tu \in {Null, TokenEndpoint},
        ru \in {RedirectPage} }

\* Storage.get(key): the stored value, or undefined
StorageGet(store, key) ==
    IF key \in DOMAIN store THEN [found |-> TRUE, value |-> store[key]]
    ELSE [found |-> FALSE, value |-> Undefined]

\* Storage.insert(key, value)
StorageInsert(store, key, value) == (key :> value) @@ store

\* an add that stores the object without setting its provider
addWithoutProvider(registry, provider, config) ==
    StorageInsert(registry, provider,
                  IF config.redirectUrl = Null
                  THEN [config EXCEPT !.redirectUrl = Origin]
                  ELSE config)

\* EndpointManager.add: the registry after add(provider, config)
add(registry, provider, config) ==
    LET c1 == IF config.redirectUrl = Null
              THEN [config EXCEPT !.redirectUrl = Origin]
              ELSE config
        c2 == [c1 EXCEPT !.provider = provider]
    IN  StorageInsert(registry, provider, c2)

\* encodeURIComponent, symbol by symbol
EncodeSym(x) ==
    CASE x = "/" -> "%2F"
      [] x = ":" -> "%3A"
      [] x = "=" -> "%3D"
      [] x = "&" -> "%26"
      [] x = "?" -> "%3F"
      [] x = "#" -> "%23"
      [] OTHER -> x

encodeURIComponent(s) == [i \in 1 .. Len(s) |-> EncodeSym(s[i])]

\* Array.prototype.join('&')
RECURSIVE JoinAmp(_)
JoinAmp(segs) ==
    IF segs = <<>> THEN <<>>
    ELSE IF Len(segs) = 1 THEN segs[1]
    ELSE segs[1] \o <<"&">> \o JoinAmp(Tail(segs))

\* EndpointManager._generateCryptoSafeRandom: throws without msCrypto / crypto
NoRandom == 0 - 1
generateCryptoSafeRandom(crypto, r) == IF crypto THEN r ELSE NoRandom

\* a url that lists redirect_uri before client_id and scope after nonce
LoginUrlReordered(endpointConfig, scope, resource, state, nonce) ==
    [ url |-> endpointConfig.baseUrl \o endpointConfig.authorizeUrl \o <<"?">>
              \o JoinAmp(
                   << <<"response_type", "=">> \o endpointConfig.responseType,
                      <<"redirect_uri", "=">>
                          \o encodeURIComponent(endpointConfig.redirectUrl),
                      <<"client_id", "=">> \o encodeURIComponent(endpointConfig.clientId) >>
                   \o (IF resource # Null THEN << <<"resource", "=">> \o resource >> ELSE <<>>)
                   \o (IF state > 0 THEN << <<"state", "=", ToString(state)>> >> ELSE <<>>)
                   \o (IF nonce > 0 THEN << <<"nonce", "=", ToString(nonce)>> >> ELSE <<>>)
                   \o (IF scope # Null THEN << <<"scope", "=">> \o scope >> ELSE <<>>)
                   \o (IF endpointConfig.extraQueryParameters \notin {Null, <<>>}
                       THEN <<endpointConfig.extraQueryParameters>> ELSE <<>>)),
      state |-> state,
      threw |-> FALSE ]

\* getLoginParams from `let urlSegments` on, scope, resource, state and
\* nonce being its locals.  `flag && random` is written as a number: 0 when
\* the flag is off (false, falsy like 0) and when the source yields 0
LoginUrl(endpointConfig, scope, resource, state, nonce) ==
    [ url |-> endpointConfig.baseUrl \o endpointConfig.authorizeUrl \o <<"?">>
              \o JoinAmp(
                   << <<"response_type", "=">> \o endpointConfig.responseType,
                      <<"client_id", "=">> \o encodeURIComponent(endpointConfig.clientId),
                      <<"redirect_uri", "=">>
                          \o encodeURIComponent(endpointConfig.redirectUrl) >>
                   \o (IF scope # Null THEN << <<"scope", "=">> \o scope >> ELSE <<>>)
                   \o (IF resource # Null THEN << <<"resource", "=">> \o resource >> ELSE <<>>)
                   \o (IF state > 0 THEN << <<"state", "=", ToString(state)>> >> ELSE <<>>)
                   \o (IF nonce > 0 THEN << <<"nonce", "=", ToString(nonce)>> >> ELSE <<>>)
                   \o (IF endpointConfig.extraQueryParameters \notin {Null, <<>>}
                       THEN <<endpointConfig.extraQueryParameters>> ELSE <<>>)),
      state |-> state,
      threw |-> FALSE ]

\* EndpointManager.getLoginParams, r1 and r2 being what the random source
\* yields for state and nonce; it throws when _generateCryptoSafeRandom does
getLoginParams(endpointConfig, crypto, r1, r2) ==
    IF (endpointConfig.state \/ endpointConfig.nonce) /\ ~crypto
    THEN [threw |-> TRUE]
    ELSE LoginUrl(endpointConfig,
             IF endpointConfig.scope \notin {Null, <<>>}
             THEN encodeURIComponent(endpointConfig.scope) ELSE Null,
             IF endpointConfig.resource \notin {Null, <<>>}
             THEN encodeURIComponent(endpointConfig.resource) ELSE Null,
             IF endpointConfig.state THEN generateCryptoSafeRandom(crypto, r1) ELSE 0,
             IF endpointConfig.nonce THEN generateCryptoSafeRandom(crypto, r2) ELSE 0)

(***************************************************************************)
(* TokenManager: its get / add / hasExpired contract.                      *)
(***************************************************************************)
\* TokenManager.add(provider, token): the cache after the write; the stored
\* token carries the provider key it was issued for
TokensAdd(cache, provider, token) ==
    StorageInsert(cache, provider, ("provider" :> provider) @@ token)

\* TokenManager.hasExpired(token) at time t, token being the result of get:
\* no token counts as expired, a token without expiry metadata never expires
hasExpired(got, t) ==
    IF ~got.found THEN TRUE
    ELSE IF "expires_at" \notin DOMAIN got.value THEN FALSE
    ELSE LET ts == {n \in Times : ToString(n) = got.value["expires_at"]}
         IN  \E n \in ts : n - t < 0

(***************************************************************************)
(* Promise values and OAuthError.                                          *)
(***************************************************************************)
NoValue == [tag |-> "none"]
Value(data) == [tag |-> "value", data |-> data]
OAuthError(message, state) == [tag |-> "OAuthError", message |-> message, state |-> state]
SyncThrow(message) == [tag |-> "Error", message |-> message]

MsgNoEndpoint == "No such registered endpoint"
MsgNoParse == "No access_token or code could be parsed."
MsgState == "State couldn't be verified"
MsgPopupClosed == "Popup window was closed"
MsgDialogParse == "Error while parsing response"
MsgDialogLaunch == "Error while launching dialog"
MsgDialogFailed == "displayDialogAsync error"
MsgNetwork == "Unable to send request due to a Network error"
MsgRequestFailed == "Request failed."
MsgExchangeParse == "An error occured while parsing the response"
MsgNoCrypto == "The platform doesn't support generation of Cryptographically Safe Randoms"

\* obj[key], undefined when the key is absent
Get(obj, key) == IF key \in DOMAIN obj THEN obj[key] ELSE Undefined

(***************************************************************************)
(* The state.                                                              *)
(***************************************************************************)
VARIABLES
    endpoints,      \* EndpointManager's store: provider -> IEndpoint
    tokens,         \* TokenManager's store: provider -> token
    host,           \* what Utilities.isAddin() does: "addin", "web", "throws"
    crypto,         \* whether window has msCrypto or crypto
    hasDialogAPI,   \* Authenticator._hasDialogAPI: "null", "true", "false"
    calls,          \* one record per authenticate / useMicrosoftTeamsAuth call
    probe           \* a call of one of the static functions: its arguments and,
                    \* once it has run, its result

vars == <<endpoints, tokens, host, crypto, hasDialogAPI, calls, probe>>

\* no static function is being called
NoProbe == [op |-> "none"]

\* a call that has not been made yet
IdleCall ==
    [ api |-> "none",         \* "authenticate" or "useMicrosoftTeamsAuth"
      provider |-> "",        \* the provider it was made for
      status |-> "idle",      \* the returned promise: "pending", "locked" (resolved
                              \* with the exchange promise, which is pending),
                              \* "resolved", "rejected"; "threw": no promise returned
      value |-> NoValue,      \* what it resolved or rejected with
      transport |-> "none",   \* "popup", "dialog", "teams"
      opened |-> 0,           \* window.open / displayDialogAsync /
                              \* microsoftTeams.authentication.authenticate calls
      loginParams |-> 0,      \* getLoginParams calls
      state |-> 0,            \* params.state
      surface |-> "none",     \* the popup / dialog / Teams window
      interval |-> FALSE,     \* the setInterval timer is running
      received |-> 0,         \* redirects the callbacks of this call were handed
      xhrFollowed |-> FALSE,  \* the exchange request the promise follows is in flight
      xhrOrphans |-> 0,       \* other exchange requests of this call in flight
      writes |-> 0 ]          \* tokens.add calls

\* resolve(value) / reject(error) on the call's promise: a settled or locked
\* promise ignores them
Settle(call, status, value) ==
    IF call.status = "pending"
    THEN [call EXCEPT !.status = status, !.value = value]
    ELSE call

(***************************************************************************)
(* Authenticator: the cache check and the dispatch.                        *)
(***************************************************************************)
\* faulty cache checks: one that never short-circuits, one that ignores the
\* expiry, one that always short-circuits
NeverHit(hasTokenExpired, force) == FALSE
HitUnlessForced(hasTokenExpired, force) == ~force
AlwaysHit(hasTokenExpired, force) == TRUE

\* `!hasTokenExpired && !force`
CacheHit(hasTokenExpired, force) == ~hasTokenExpired /\ ~force

\* `endpoint == null`
EndpointMissing(lookup) == ~lookup.found

\* a faulty getter: Utilities.isAddin() is asked on every read
ProbeEveryTime(cached, isAddin) == IF isAddin = "addin" THEN "true" ELSE "false"

\* the hasDialogAPI getter: the value of _hasDialogAPI after the read
ProbeDialogAPI(cached, isAddin) ==
    IF cached = "null"
    THEN (IF isAddin = "addin" THEN "true" ELSE "false")
    ELSE cached

\* the call once its arguments are bound and its promise exists
Started(api, provider) ==
    [IdleCall EXCEPT !.api = api, !.provider = provider, !.status = "pending"]

\* what the three transports share up to the return of the promise: params
\* is what getLoginParams gave, then the surface is opened
OpenTransport(call, params, transport, surface, interval) ==
    IF params.threw
    THEN [call EXCEPT !.loginParams = @ + 1, !.status = "threw",
                      !.value = SyncThrow(MsgNoCrypto)]
    ELSE [call EXCEPT !.loginParams = @ + 1, !.state = params.state,
                      !.transport = transport, !.opened = @ + 1,
                      !.surface = surface, !.interval = interval]

\* _openInWindowPopup up to the return of the promise; window.open yields
\* null when the popup is blocked
openInWindowPopup(call, endpoint, r1, r2, blocked) ==
    OpenTransport(call, getLoginParams(endpoint, crypto, r1, r2), "popup",
                  IF blocked THEN "blocked" ELSE "login", TRUE)

\* _openInDialog up to the return of the promise
openInDialog(call, endpoint, r1, r2) ==
    OpenTransport(call, getLoginParams(endpoint, crypto, r1, r2), "dialog",
                  "dialogOpening", FALSE)

\* _openWithTeams up to the return of the promise
openWithTeams(call, endpoint, r1, r2) ==
    OpenTransport(call, getLoginParams(endpoint, crypto, r1, r2), "teams",
                  "teamsOpen", FALSE)

\* the slot of the next call
NextCall(c) ==
    /\ calls[c].status = "idle"
    /\ \A d \in DOMAIN calls : d < c => calls[d].status # "idle"

\* t: the time hasExpired reads; r1, r2: what the random source yields;
\* blocked: window.open yields null
authenticate(c, provider, force, t, r1, r2, blocked) ==
    /\ NextCall(c)
    /\ LET token == StorageGet(tokens, provider)
           endpoint == StorageGet(endpoints, provider)
           hasTokenExpired == hasExpired(token, t)
           call == Started("authenticate", provider)
           probed == ProbeDialogAPI(hasDialogAPI, host)
       IN  IF CacheHit(hasTokenExpired, force)
           THEN /\ calls' = [calls EXCEPT ![c] = Settle(call, "resolved", Value(token.value))]
                /\ UNCHANGED hasDialogAPI
           ELSE IF EndpointMissing(endpoint)
           THEN /\ calls' = [calls EXCEPT ![c] =
                       Settle(call, "rejected", OAuthError(MsgNoEndpoint, Undefined))]
                /\ UNCHANGED hasDialogAPI
           ELSE /\ hasDialogAPI' = probed
                /\ calls' = [calls EXCEPT ![c] =
                       IF probed = "true"
                       THEN openInDialog(call, endpoint.value, r1, r2)
                       ELSE openInWindowPopup(call, endpoint.value, r1, r2, blocked)]
    /\ UNCHANGED <<endpoints, tokens, host, crypto, probe>>

useMicrosoftTeamsAuth(c, provider, force, t, r1, r2) ==
    /\ NextCall(c)
    /\ LET token == StorageGet(tokens, provider)
           endpoint == StorageGet(endpoints, provider)
           hasTokenExpired == hasExpired(token, t)
           call == Started("useMicrosoftTeamsAuth", provider)
       IN  calls' = [calls EXCEPT ![c] =
               IF CacheHit(hasTokenExpired, force)
               THEN Settle(call, "resolved", Value(token.value))
               ELSE IF EndpointMissing(endpoint)
               THEN Settle(call, "rejected", OAuthError(MsgNoEndpoint, Undefined))
               ELSE openWithTeams(call, endpoint.value, r1, r2)]
    /\ UNCHANGED <<endpoints, tokens, host, crypto, probe, hasDialogAPI>>

(***************************************************************************)
(* Authenticator: what a transport callback does with a redirect.          *)
(***************************************************************************)
\* a faulty chain: the error of the last branch does not carry the state
ClassifyErrorWithoutState(endpoint, paramsState, result) ==
    IF result.kind = "threw" THEN [do |-> "throw"]
    ELSE IF result.kind = "undefined"
    THEN [do |-> "reject", error |-> OAuthError(MsgNoParse, Undefined)]
    ELSE IF endpoint.state /\ ToNumber(Get(result.params, "state")) # paramsState
    THEN [do |-> "reject", error |-> OAuthError(MsgState, Undefined)]
    ELSE IF "code" \in DOMAIN result.params
    THEN [do |-> "exchange", data |-> result.params]
    ELSE IF "access_token" \in DOMAIN result.params
    THEN [do |-> "token", data |-> result.params]
    ELSE [do |-> "reject",
          error |-> OAuthError(Get(result.params, "error"), Undefined)]

\* a faulty chain: access_token is looked for before the state is compared
ClassifyTokenBeforeState(endpoint, paramsState, result) ==
    IF result.kind = "threw" THEN [do |-> "throw"]
    ELSE IF result.kind = "undefined"
    THEN [do |-> "reject", error |-> OAuthError(MsgNoParse, Undefined)]
    ELSE IF "access_token" \in DOMAIN result.params /\ "code" \notin DOMAIN result.params
    THEN [do |-> "token", data |-> result.params]
    ELSE IF endpoint.state /\ ToNumber(Get(result.params, "state")) # paramsState
    THEN [do |-> "reject", error |-> OAuthError(MsgState, Undefined)]
    ELSE IF "code" \in DOMAIN result.params
    THEN [do |-> "exchange", data |-> result.params]
    ELSE [do |-> "reject",
          error |-> OAuthError(Get(result.params, "error"),
                               Get(result.params, "state"))]

\* a faulty chain: the state comparison is left out
ClassifyWithoutStateCheck(endpoint, paramsState, result) ==
    IF result.kind = "threw" THEN [do |-> "throw"]
    ELSE IF result.kind = "undefined"
    THEN [do |-> "reject", error |-> OAuthError(MsgNoParse, Undefined)]
    ELSE IF "code" \in DOMAIN result.params
    THEN [do |-> "exchange", data |-> result.params]
    ELSE IF "access_token" \in DOMAIN result.params
    THEN [do |-> "token", data |-> result.params]
    ELSE [do |-> "reject",
          error |-> OAuthError(Get(result.params, "error"),
                               Get(result.params, "state"))]

\* the if / else-if chain that follows getToken, the same in the popup's
\* poll callback, the dialog's message handler and the Teams success
\* callback; result is what getToken gave
Classify(endpoint, paramsState, result) ==
    IF result.kind = "threw" THEN [do |-> "throw"]
    ELSE IF result.kind = "undefined"
    THEN [do |-> "reject", error |-> OAuthError(MsgNoParse, Undefined)]
    ELSE IF endpoint.state /\ ToNumber(Get(result.params, "state")) # paramsState
    THEN [do |-> "reject", error |-> OAuthError(MsgState, Undefined)]
    ELSE IF "code" \in DOMAIN result.params
    THEN [do |-> "exchange", data |-> result.params]
    ELSE IF "access_token" \in DOMAIN result.params
    THEN [do |-> "token", data |-> result.params]
    ELSE [do |-> "reject",
          error |-> OAuthError(Get(result.params, "error"),
                               Get(result.params, "state"))]

\* `this.getToken(url, endpoint.redirectUrl)` and the chain
Outcome(endpoint, paramsState, url) ==
    Classify(endpoint, paramsState, getToken(url, endpoint.redirectUrl, "#"))

\* a faulty exchange: the request is sent whether or not there is a tokenUrl
exchangeWithoutTokenUrlTest(call, endpoint, data) ==
    IF call.status = "pending"
    THEN [call EXCEPT !.status = "locked", !.xhrFollowed = TRUE]
    ELSE [call EXCEPT !.xhrOrphans = @ + 1]

\* exchangeCodeForToken up to xhr.send, and resolve(<its promise>) on the
\* call's promise
exchangeCodeForToken(call, endpoint, data) ==
    IF endpoint.tokenUrl = Null
    THEN Settle(call, "resolved", Value(data))
    ELSE IF call.status = "pending"
    THEN [call EXCEPT !.status = "locked", !.xhrFollowed = TRUE]
    ELSE [call EXCEPT !.xhrOrphans = @ + 1]

\* what a callback does once the chain gave o; catches: the callback's catch
\* block rejects (the dialog's and Teams' do, the popup's does not)
Act(call, cache, endpoint, o, catches) ==
    CASE o.do = "throw" ->
           [call |-> IF catches
                     THEN Settle(call, "rejected", OAuthError(MsgDialogParse, Undefined))
                     ELSE call,
            tokens |-> cache]
      [] o.do = "reject" ->
           [call |-> Settle(call, "rejected", o.error), tokens |-> cache]
      [] o.do = "exchange" ->
           [call |-> exchangeCodeForToken(call, endpoint, o.data), tokens |-> cache]
      [] o.do = "token" ->
           [call |-> Settle([call EXCEPT !.writes = @ + 1], "resolved", Value(o.data)),
            tokens |-> TokensAdd(cache, endpoint.provider, o.data)]

\* a callback's run on the redirect url
Handle(call, cache, endpoint, url, catches) ==
    Act([call EXCEPT !.received = @ + 1], cache, endpoint,
        Outcome(endpoint, call.state, url), catches)

\* the callback of call c ends: h is what Handle gave
Commit(c, h) ==
    /\ calls' = [calls EXCEPT ![c] = h.call]
    /\ tokens' = h.tokens

(***************************************************************************)
(* What the environment can supply.                                        *)
(***************************************************************************)
\* reading popupWindow.document throws (another origin, or no window)
CrossOrigin == <<"cross-origin?">>
\* the provider's own page, readable but not the redirect page
LoginPage == Origin \o <<"/", "login">>

PayloadKinds ==
    { <<"access_token", "=", "ABC">>,
      <<"code", "=", "XYZ">>,
      <<"error", "=", "access_denied">>,
      <<"access_token", "=", "ABC", "&", "code", "=", "XYZ">>,
      <<"access_token", "=", "%">>,
      <<>> }

StateFields ==
    {<<>>} \cup { <<"&", "state", "=", ToString(r)>> : r \in RandomValues }

\* the urls a redirect can carry back for an endpoint
RedirectUrls(endpoint) ==
    {endpoint.redirectUrl}
    \cup { endpoint.redirectUrl \o <<"#">> \o k \o f : k \in PayloadKinds, f \in StateFields }

\* the responses of the token endpoint
Json(kind, fields) == [json |-> kind, fields |-> fields]
Bodies ==
    { Json("invalid", <<>>), Json("null", <<>>), Json("primitive", <<>>),
      Json("object", <<>>),
      Json("object", [access_token |-> "X"]),
      Json("object", [error |-> "invalid_grant", state |-> "1"]) }
HttpStatuses == {200, 401}
\* the responses of the token endpoint: any body with 200, one with 401
Responses ==
    { <<st, body>> \in HttpStatuses \X Bodies :
        st = 200 \/ body = Json("object", [error |-> "invalid_grant", state |-> "1"]) }

(***************************************************************************)
(* The popup transport's callbacks.                                        *)
(***************************************************************************)
\* one run of the setInterval callback, url being what
\* popupWindow.document.URL yields
PollTick(c, url) ==
    /\ calls[c].interval
    /\ CASE calls[c].surface = "blocked" ->
               \* popupWindow is null: TypeError, caught, !popupWindow
               /\ url = CrossOrigin
               /\ calls' = [calls EXCEPT ![c] =
                      Settle([@ EXCEPT !.interval = FALSE], "rejected",
                             OAuthError(MsgPopupClosed, Undefined))]
               /\ UNCHANGED tokens
          [] calls[c].surface \in {"userClosed", "userClosedPolled"} ->
               \* the closed window's document cannot be read: caught,
               \* popupWindow is still an object
               /\ url = CrossOrigin
               /\ calls' = [calls EXCEPT ![c].surface = "userClosedPolled"]
               /\ UNCHANGED tokens
          [] calls[c].surface = "login" ->
               IF url = CrossOrigin
                  \/ IndexOf(url, endpoints[calls[c].provider].redirectUrl) = 0
               THEN UNCHANGED <<calls, tokens>>
               ELSE Commit(c, Handle([calls[c] EXCEPT !.interval = FALSE,
                                                      !.surface = "closed"],
                                     tokens, endpoints[calls[c].provider],
                                     url, FALSE))
    /\ UNCHANGED <<endpoints, host, crypto, probe, hasDialogAPI>>

\* the user closes the popup window
UserClosesPopup(c) ==
    /\ calls[c].surface = "login"
    /\ calls' = [calls EXCEPT ![c].surface = "userClosed"]
    /\ UNCHANGED <<endpoints, tokens, host, crypto, probe, hasDialogAPI>>

(***************************************************************************)
(* The dialog transport's callbacks.                                       *)
(***************************************************************************)
\* the callback of displayDialogAsync; ok: result.value is a dialog
DialogCallback(c, ok) ==
    /\ calls[c].surface = "dialogOpening"
    /\ calls' = [calls EXCEPT ![c] =
           IF ok THEN [@ EXCEPT !.surface = "dialogOpen"]
           ELSE Settle([@ EXCEPT !.surface = "dialogFailed"], "rejected",
                       OAuthError(MsgDialogFailed, Undefined))]
    /\ UNCHANGED <<endpoints, tokens, host, crypto, probe, hasDialogAPI>>

\* the DialogMessageReceived handler; it stays registered after dialog.close()
DialogMessageReceived(c, message) ==
    /\ calls[c].surface \in {"dialogOpen", "dialogClosed"}
    /\ calls[c].received < MaxMsgs
    /\ Commit(c, Handle([calls[c] EXCEPT !.surface = "dialogClosed"],
                         tokens, endpoints[calls[c].provider], message, TRUE))
    /\ UNCHANGED <<endpoints, host, crypto, probe, hasDialogAPI>>

\* the user closes the dialog: the host raises DialogEventReceived, for which
\* no handler is registered
UserClosesDialog(c) ==
    /\ calls[c].surface = "dialogOpen"
    /\ calls' = [calls EXCEPT ![c].surface = "dialogUserClosed"]
    /\ UNCHANGED <<endpoints, tokens, host, crypto, probe, hasDialogAPI>>

(***************************************************************************)
(* The Teams transport's callbacks.                                        *)
(***************************************************************************)
TeamsSuccess(c, message) ==
    /\ calls[c].surface = "teamsOpen"
    /\ Commit(c, Handle([calls[c] EXCEPT !.surface = "teamsDone"],
                         tokens, endpoints[calls[c].provider], message, TRUE))
    /\ UNCHANGED <<endpoints, host, crypto, probe, hasDialogAPI>>

\* a faulty failure callback: the failure is not passed on
TeamsFailureIgnored(c) ==
    /\ calls[c].surface = "teamsOpen"
    /\ calls' = [calls EXCEPT ![c].surface = "teamsDone"]
    /\ UNCHANGED <<endpoints, tokens, host, crypto, probe, hasDialogAPI>>

TeamsFailure(c) ==
    /\ calls[c].surface = "teamsOpen"
    /\ calls' = [calls EXCEPT ![c] =
           Settle([@ EXCEPT !.surface = "teamsDone"], "rejected",
                  OAuthError(MsgDialogLaunch, Undefined))]
    /\ UNCHANGED <<endpoints, tokens, host, crypto, probe, hasDialogAPI>>

(***************************************************************************)
(* exchangeCodeForToken: the request's handlers.                           *)
(***************************************************************************)
\* faulty onload handlers: one that takes any object for a token, one that
\* answers every body without access_token with the no-token error
OnLoadTakingAnyObject(httpStatus, body) ==
    IF httpStatus = 200 /\ body.json = "object"
    THEN [status |-> "resolved", write |-> TRUE, value |-> Value(body.fields)]
    ELSE [status |-> "rejected", write |-> FALSE,
          value |-> OAuthError(MsgRequestFailed, Undefined)]
OnLoadOneErrorKind(httpStatus, body) ==
    IF httpStatus = 200 /\ body.json = "object" /\ "access_token" \in DOMAIN body.fields
    THEN [status |-> "resolved", write |-> TRUE, value |-> Value(body.fields)]
    ELSE [status |-> "rejected", write |-> FALSE,
          value |-> OAuthError(IF httpStatus = 200 THEN MsgNoParse ELSE MsgRequestFailed,
                               Undefined)]

\* xhr.onload: what the exchange promise settles with, and whether the body
\* is written to the token cache
OnLoad(httpStatus, body) ==
    IF httpStatus = 200
    THEN CASE body.json = "invalid" ->    \* JSON.parse throws
                [status |-> "rejected", write |-> FALSE,
                 value |-> OAuthError(MsgExchangeParse, Undefined)]
           [] body.json = "null" ->
                [status |-> "rejected", write |-> FALSE,
                 value |-> OAuthError(MsgNoParse, Undefined)]
           [] body.json = "primitive" ->  \* `in` throws TypeError
                [status |-> "rejected", write |-> FALSE,
                 value |-> OAuthError(MsgExchangeParse, Undefined)]
           [] body.json = "object" ->
                IF "access_token" \in DOMAIN body.fields
                THEN [status |-> "resolved", write |-> TRUE,
                      value |-> Value(body.fields)]
                ELSE [status |-> "rejected", write |-> FALSE,
                      value |-> OAuthError(Get(body.fields, "error"),
                                           Get(body.fields, "state"))]
    ELSE [status |-> "rejected", write |-> FALSE,
          value |-> OAuthError(MsgRequestFailed, Undefined)]

\* xhr.onerror
OnError == [status |-> "rejected", write |-> FALSE,
            value |-> OAuthError(MsgNetwork, Undefined)]

\* a request of call c completes with outcome o; followed: it is the one
\* the call's promise was resolved with
XhrDone(c, followed, o) ==
    /\ IF followed THEN calls[c].xhrFollowed ELSE calls[c].xhrOrphans > 0
    /\ calls' = [calls EXCEPT ![c] =
           IF followed
           THEN [@ EXCEPT !.xhrFollowed = FALSE, !.status = o.status,
                          !.value = o.value,
                          !.writes = IF o.write THEN @ + 1 ELSE @]
           ELSE [@ EXCEPT !.xhrOrphans = @ - 1,
                          !.writes = IF o.write THEN @ + 1 ELSE @]]
    /\ tokens' = IF o.write
                 THEN TokensAdd(tokens, endpoints[calls[c].provider].provider,
                                o.value.data)
                 ELSE tokens
    /\ UNCHANGED <<endpoints, host, crypto, probe, hasDialogAPI>>

XhrLoad(c, followed, httpStatus, body) == XhrDone(c, followed, OnLoad(httpStatus, body))

XhrError(c, followed) == XhrDone(c, followed, OnError)

(***************************************************************************)
(* The specification.                                                      *)
(***************************************************************************)
\* the registries found in storage, built by add in earlier sessions
Registries == { add(<<>>, "Google", g) : g \in Configs }

\* the platforms: what isAddin does, and whether there is a crypto object
Platforms ==
    { <<"addin", TRUE>>, <<"web", TRUE>>, <<"throws", TRUE>>, <<"web", FALSE>> }

\* the token caches found in storage: tokens of earlier sessions
StoredTokens ==
    { [access_token |-> "OLD"],
      [access_token |-> "OLD", expires_at |-> ToString(0)] }
Caches ==
    {<<>>} \cup { TokensAdd(<<>>, "Google", t) : t \in StoredTokens }

\* the redirect urls call c's transport can be handed
CallUrls(c) ==
    IF calls[c].transport = "none" THEN {}
    ELSE RedirectUrls(endpoints[calls[c].provider])

Init ==
    /\ endpoints \in Registries
    /\ tokens \in Caches
    /\ \E pf \in Platforms : host = pf[1] /\ crypto = pf[2]
    /\ hasDialogAPI = "null"
    /\ calls = [c \in CallIds |-> IdleCall]
    /\ probe = NoProbe

Next ==
    \/ \E c \in DOMAIN calls, p \in Providers, force \in BOOLEAN, t \in Times,
          r1 \in RandomValues, r2 \in RandomValues, blocked \in BOOLEAN :
            authenticate(c, p, force, t, r1, r2, blocked)
    \/ \E c \in DOMAIN calls, p \in Providers, force \in BOOLEAN, t \in Times,
          r1 \in RandomValues, r2 \in RandomValues :
            useMicrosoftTeamsAuth(c, p, force, t, r1, r2)
    \/ \E c \in DOMAIN calls :
          \E url \in {CrossOrigin, LoginPage} \cup CallUrls(c) :
            PollTick(c, url)
    \/ \E c \in DOMAIN calls : UserClosesPopup(c)
    \/ \E c \in DOMAIN calls, ok \in BOOLEAN : DialogCallback(c, ok)
    \/ \E c \in DOMAIN calls :
          \E message \in CallUrls(c) :
            DialogMessageReceived(c, message)
    \/ \E c \in DOMAIN calls : UserClosesDialog(c)
    \/ \E c \in DOMAIN calls :
          \E message \in CallUrls(c) :
            TeamsSuccess(c, message)
    \/ \E c \in DOMAIN calls : TeamsFailure(c)
    \/ \E c \in DOMAIN calls, followed \in BOOLEAN, r \in Responses :
            XhrLoad(c, followed, r[1], r[2])
    \/ \E c \in DOMAIN calls, followed \in BOOLEAN : XhrError(c, followed)

Spec == Init /\ [][Next]_vars

\* what the platform's scheduling guarantees: the interval timer keeps
\* firing, displayDialogAsync calls its callback, a request that was sent
\* completes.  Nothing obliges the user or the provider to act.
PollRuns == \E c \in DOMAIN calls : \E url \in {CrossOrigin, LoginPage} : PollTick(c, url)
DialogAnswers == \E c \in DOMAIN calls, ok \in BOOLEAN : DialogCallback(c, ok)
RequestCompletes ==
    \E c \in DOMAIN calls, followed \in BOOLEAN :
        \/ XhrError(c, followed)
        \/ \E r \in Responses : XhrLoad(c, followed, r[1], r[2])

FairSpec ==
    /\ Spec
    /\ WF_vars(PollRuns)
    /\ WF_vars(DialogAnswers)
    /\ WF_vars(RequestCompletes)

(***************************************************************************)
(* The static functions getToken and getLoginParams, called on their own.  *)
(***************************************************************************)
\* the parameter blobs of the urls getToken is called with
ProbePayloads ==
    { <<>>,
      <<"access_token", "=", "ABC">>,
      <<"access_token", "=", "ABC", "&", "state", "=", "42">>,
      <<"error", "=", "access_denied">>,
      <<"k", "=", "1", "&", "k", "=", "2">>,
      <<"access_token", "=", "a", "%2F", "b">>,
      <<"a", "%26", "b", "=", "1">>,
      <<"access_token", "=">>,
      <<"flag", "&", "code", "=", "XYZ">>,
      <<"access_token", "=", "%">>,
      <<"access_token", "=", "a", "/", "b">> }

\* the urls getToken is called with: without a delimiter, and with '#' or
\* '?' followed by a blob, with or without a slash before the blob
ProbeUrls ==
    { RedirectPage, RedirectPage \o <<"/", "done">> }
    \cup { RedirectPage \o <<d>> \o lead \o blob :
             d \in {"#", "?"}, lead \in {<<>>, <<"/">>}, blob \in ProbePayloads }

ProbeExcludes == { RedirectPage, Origin, <<>> }
ProbeDelimiters == { "#", "?" }

\* the configurations getLoginParams is called with
ProbeConfigs ==
    { [Config(st, no, Null, RedirectPage)
          EXCEPT !.scope = sc, !.resource = re, !.extraQueryParameters = ex] :
        st \in BOOLEAN, no \in BOOLEAN,
        sc \in {<<"profile">>, Null},
        re \in {<<"https", ":", "/", "/", "graph">>, Null},
        ex \in {<<"prompt", "=", "login">>, Null} }

GetTokenProbes ==
    { [op |-> "getToken", url |-> u, exclude |-> e, delimiter |-> d, done |-> FALSE] :
        u \in ProbeUrls, e \in ProbeExcludes, d \in ProbeDelimiters }

GetLoginParamsProbes ==
    { [op |-> "getLoginParams", config |-> g, r1 |-> a, r2 |-> b, done |-> FALSE] :
        g \in ProbeConfigs, a \in RandomValues, b \in RandomValues }

\* the screens _determineDialogSize reads: window.screen.width / height
ScreenWidths == { 500, 640, 641, 1007, 1024, 1025, 1920 }
ScreenHeights == { 400, 480, 481, 768, 769, 1080 }

DialogSizeProbes ==
    { [op |-> "determineDialogSize", screenWidth |-> w, screenHeight |-> h, done |-> FALSE] :
        w \in ScreenWidths, h \in ScreenHeights }

\* _createSizeObject's minOrDefault
minOrDefault(value, isHorizontal, screenWidth, screenHeight) ==
    IF value < (IF isHorizontal THEN screenWidth ELSE screenHeight)
    THEN value
    ELSE (IF isHorizontal THEN screenWidth ELSE screenHeight) - 30

\* _createSizeObject's percentage: the number value * 100 / dimension, kept
\* as numerator and denominator
percentage(value, isHorizontal, screenWidth, screenHeight) ==
    [ num |-> value * 100,
      den |-> IF isHorizontal THEN screenWidth ELSE screenHeight ]

\* _createSizeObject: width and height in percent, and what toPixels() gives
createSizeObject(width, height, screenWidth, screenHeight) ==
    [ width |-> percentage(minOrDefault(width, TRUE, screenWidth, screenHeight),
                           TRUE, screenWidth, screenHeight),
      height |-> percentage(minOrDefault(height, FALSE, screenWidth, screenHeight),
                            FALSE, screenWidth, screenHeight),
      toPixels |-> [ width |-> minOrDefault(width, TRUE, screenWidth, screenHeight),
                     height |-> minOrDefault(height, FALSE, screenWidth, screenHeight) ] ]

determineDialogSize(screenWidth, screenHeight) ==
    IF screenWidth <= 640
    THEN createSizeObject(640, 480, screenWidth, screenHeight)
    ELSE IF screenWidth <= 1007
    THEN createSizeObject(1024, 768, screenWidth, screenHeight)
    ELSE createSizeObject(1024, 768, screenWidth, screenHeight)

\* Authenticator._determineDialogSize() runs
RunDetermineDialogSize ==
    /\ probe.op = "determineDialogSize"
    /\ ~probe.done
    /\ probe' = [op |-> "determineDialogSize", screenWidth |-> probe.screenWidth,
                 screenHeight |-> probe.screenHeight, done |-> TRUE,
                 result |-> determineDialogSize(probe.screenWidth, probe.screenHeight)]
    /\ UNCHANGED <<endpoints, tokens, host, crypto, hasDialogAPI, calls>>

\* Authenticator.getToken(url, exclude, delimiter) runs
RunGetToken ==
    /\ probe.op = "getToken"
    /\ ~probe.done
    /\ probe' = [op |-> "getToken", url |-> probe.url, exclude |-> probe.exclude,
                 delimiter |-> probe.delimiter, done |-> TRUE,
                 result |-> getToken(probe.url, probe.exclude, probe.delimiter)]
    /\ UNCHANGED <<endpoints, tokens, host, crypto, hasDialogAPI, calls>>

\* EndpointManager.getLoginParams(config) runs
RunGetLoginParams ==
    /\ probe.op = "getLoginParams"
    /\ ~probe.done
    /\ probe' = [op |-> "getLoginParams", config |-> probe.config, r1 |-> probe.r1,
                 r2 |-> probe.r2, done |-> TRUE,
                 result |-> getLoginParams(probe.config, crypto, probe.r1, probe.r2)]
    /\ UNCHANGED <<endpoints, tokens, host, crypto, hasDialogAPI, calls>>

StaticInit ==
    /\ endpoints = <<>>
    /\ tokens = <<>>
    /\ host = "web"
    /\ crypto \in BOOLEAN
    /\ hasDialogAPI = "null"
    /\ calls = [c \in CallIds |-> IdleCall]
    /\ probe \in GetTokenProbes \cup GetLoginParamsProbes \cup DialogSizeProbes

StaticNext ==
    \/ RunGetToken
    \/ RunGetLoginParams
    \/ RunDetermineDialogSize

StaticSpec == StaticInit /\ [][StaticNext]_vars

(***************************************************************************)
(* EndpointManager.add and the register<Provider> presets, called on       *)
(* their own.                                                              *)
(***************************************************************************)
\* the properties an endpoint object may carry: IEndpoint's, and the
\* extraParameters the Microsoft preset sets
Fields ==
    { "provider", "clientId", "baseUrl", "authorizeUrl", "redirectUrl", "tokenUrl",
      "scope", "resource", "state", "nonce", "responseType", "extraQueryParameters",
      "extraParameters" }

\* an object as its readers see it: an absent property reads as undefined
Fill(o) == [f \in Fields |-> IF f \in DOMAIN o THEN o[f] ELSE Null]

\* Utilities.extend(dest, s1, s2): the properties of the sources copied to
\* dest.  Which source wins a property both carry is decided by a loop
\* that is not part of the sources at hand: laterWins gives either order
extend(dest, s1, s2, laterWins) ==
    IF laterWins THEN s2 @@ s1 @@ dest ELSE s1 @@ s2 @@ dest

GoogleDefaults(clientId) ==
    [ clientId |-> clientId,
      baseUrl |-> <<"https", ":", "/", "/", "accounts.google.com">>,
      authorizeUrl |-> <<"/", "o", "/", "oauth2", "/", "v2", "/", "auth">>,
      resource |-> <<"https", ":", "/", "/", "www.googleapis.com">>,
      responseType |-> <<"token">>,
      scope |-> <<"https", ":", "/", "/", "www.googleapis.com", "/", "auth", "/", "plus.me">>,
      state |-> TRUE ]

MicrosoftDefaults(clientId) ==
    [ clientId |-> clientId,
      baseUrl |-> <<"https", ":", "/", "/", "login.microsoftonline.com", "/", "common",
                    "/", "oauth2", "/", "v2.0">>,
      authorizeUrl |-> <<"/", "authorize">>,
      responseType |-> <<"token">>,
      scope |-> <<"https", ":", "/", "/", "graph.microsoft.com", "/", "user.read">>,
      extraParameters |-> <<"&", "response_mode", "=", "fragment">>,
      nonce |-> TRUE,
      state |-> TRUE ]

FacebookDefaults(clientId) ==
    [ clientId |-> clientId,
      baseUrl |-> <<"https", ":", "/", "/", "www.facebook.com">>,
      authorizeUrl |-> <<"/", "dialog", "/", "oauth">>,
      resource |-> <<"https", ":", "/", "/", "graph.facebook.com">>,
      responseType |-> <<"token">>,
      scope |-> <<"public_profile">>,
      nonce |-> TRUE,
      state |-> TRUE ]

AzureADDefaults(clientId, tenant) ==
    [ clientId |-> clientId,
      baseUrl |-> <<"https", ":", "/", "/", "login.windows.net", "/">> \o tenant,
      authorizeUrl |-> <<"/", "oauth2", "/", "authorize">>,
      resource |-> <<"https", ":", "/", "/", "graph.microsoft.com">>,
      responseType |-> <<"token">>,
      nonce |-> TRUE,
      state |-> TRUE ]

\* what callers pass: keys and objects to add, client ids, tenants, and
\* the overrides of a preset (none, or objects naming some properties)
AddKeys == { "Custom", "Google" }
AddConfigs ==
    { Config(TRUE, FALSE, Null, RedirectPage),
      Config(TRUE, FALSE, Null, Null),
      Config(FALSE, FALSE, TokenEndpoint, Null) }
ClientIds == { <<"client">> }
Tenants == { <<"common">> }
NoOverrides == <<>>
Overrides ==
    { NoOverrides,
      [ scope |-> <<"email">>, state |-> FALSE ],
      [ redirectUrl |-> RedirectPage, responseType |-> <<"code">>,
        baseUrl |-> <<"https", ":", "/", "/", "idp">> ] }

\* endpoints.add(provider, config)
AddEndpoint(provider, config) ==
    /\ endpoints' = add(endpoints, provider, config)
    /\ UNCHANGED <<tokens, host, crypto, hasDialogAPI, calls, probe>>

registerGoogleAuth(clientId, overrides, laterWins) ==
    /\ endpoints' = add(endpoints, "Google",
                        Fill(extend(<<>>, overrides, GoogleDefaults(clientId), laterWins)))
    /\ UNCHANGED <<tokens, host, crypto, hasDialogAPI, calls, probe>>

registerMicrosoftAuth(clientId, overrides, laterWins) ==
    /\ endpoints' = add(endpoints, "Microsoft",
                        Fill(extend(<<>>, overrides, MicrosoftDefaults(clientId), laterWins)))
    /\ UNCHANGED <<tokens, host, crypto, hasDialogAPI, calls, probe>>

registerFacebookAuth(clientId, overrides, laterWins) ==
    /\ endpoints' = add(endpoints, "Facebook",
                        Fill(extend(<<>>, overrides, FacebookDefaults(clientId), laterWins)))
    /\ UNCHANGED <<tokens, host, crypto, hasDialogAPI, calls, probe>>

registerAzureADAuth(clientId, tenant, overrides, laterWins) ==
    /\ endpoints' = add(endpoints, "AzureAD",
                        Fill(extend(<<>>, overrides, AzureADDefaults(clientId, tenant),
                                    laterWins)))
    /\ UNCHANGED <<tokens, host, crypto, hasDialogAPI, calls, probe>>

\* a new EndpointManager over an empty store
RegistryInit ==
    /\ endpoints = <<>>
    /\ tokens = <<>>
    /\ host = "web"
    /\ crypto = TRUE
    /\ hasDialogAPI = "null"
    /\ calls = [c \in CallIds |-> IdleCall]
    /\ probe = NoProbe

RegistryNext ==
    \/ \E k \in AddKeys, g \in AddConfigs : AddEndpoint(k, g)
    \/ \E id \in ClientIds, o \in Overrides, w \in BOOLEAN : registerGoogleAuth(id, o, w)
    \/ \E id \in ClientIds, o \in Overrides, w \in BOOLEAN : registerMicrosoftAuth(id, o, w)
    \/ \E id \in ClientIds, o \in Overrides, w \in BOOLEAN : registerFacebookAuth(id, o, w)
    \/ \E id \in ClientIds, t \in Tenants, o \in Overrides, w \in BOOLEAN :
          registerAzureADAuth(id, t, o, w)

RegistrySpec == RegistryInit /\ [][RegistryNext]_vars

(***************************************************************************)
(* Two calls of one Authenticator, the provider's pages answering the      *)
(* login they were opened with.                                            *)
(***************************************************************************)
BothCalls == {1, 2}

\* the provider of each call: the second differs from the first, in one
\* case by the case of its letters only
FirstProviders == { "Google" }
SecondProviders == { "google", "Custom" }

\* String.prototype.toUpperCase on a provider name
toUpperCase(provider) ==
    CASE provider \in {"Google", "google"} -> "GOOGLE"
      [] provider = "Custom" -> "CUSTOM"
      [] OTHER -> provider

\* the name window.open is given: endpoint.provider.toUpperCase()
WindowName(c) == toUpperCase(endpoints[calls[c].provider].provider)

\* the other calls whose popupWindow is the window of call c: window.open
\* with the name of an open window navigates that window and returns it
Sharers(c) ==
    { d \in DOMAIN calls \ {c} :
        /\ calls[c].transport = "popup" /\ calls[c].surface = "login"
        /\ calls[d].transport = "popup" /\ calls[d].surface = "login"
        /\ WindowName(d) = WindowName(c) }

\* the call whose login url the window of call c was last navigated to
Navigator(c) ==
    CHOOSE d \in Sharers(c) \cup {c} : \A e \in Sharers(c) \cup {c} : e <= d

\* the redirects the provider answers the login of call d with: the state
\* of the login url echoed (the url has none when the state is 0), and a
\* token issued for d's provider, a code, or an error
StateEcho(d) ==
    IF calls[d].state > 0 THEN <<"&", "state", "=", ToString(calls[d].state)>> ELSE <<>>
FlowUrls(d) ==
    IF calls[d].transport = "none" THEN {}
    ELSE { endpoints[calls[d].provider].redirectUrl \o <<"#">> \o k \o StateEcho(d) :
             k \in { <<"access_token", "=", calls[d].provider>>,
                     <<"code", "=", "XYZ">>,
                     <<"error", "=", "access_denied">> } }

\* what popupWindow.document.URL can yield for call c
WindowShows(c) ==
    IF calls[c].surface = "login"
    THEN {CrossOrigin} \cup FlowUrls(Navigator(c))
    ELSE {CrossOrigin}

\* one run of the setInterval callback of call c; popupWindow.close()
\* closes the window under every call that holds it
SharedPollTick(c, url) ==
    /\ url \in WindowShows(c)
    /\ IF Sharers(c) = {} \/ url = CrossOrigin
          \/ IndexOf(url, endpoints[calls[c].provider].redirectUrl) = 0
       THEN PollTick(c, url)
       ELSE /\ calls[c].interval
            /\ calls' =
                 [d \in DOMAIN calls |->
                    IF d = c
                    THEN Handle([calls[c] EXCEPT !.interval = FALSE, !.surface = "closed"],
                                tokens, endpoints[calls[c].provider], url, FALSE).call
                    ELSE IF d \in Sharers(c)
                    THEN [calls[d] EXCEPT !.surface = "userClosed"]
                    ELSE calls[d]]
            /\ tokens' =
                 Handle([calls[c] EXCEPT !.interval = FALSE, !.surface = "closed"],
                        tokens, endpoints[calls[c].provider], url, FALSE).tokens
            /\ UNCHANGED <<endpoints, host, crypto, probe, hasDialogAPI>>

\* Utilities.isAddin() comes to answer differently (Office.js has loaded,
\* or the page has left the host)
HostChanges(h) ==
    /\ h # host
    /\ host' = h
    /\ UNCHANGED <<endpoints, tokens, crypto, hasDialogAPI, calls, probe>>

\* the answers of the token endpoint to the request of call c
FlowResponses(c) ==
    { <<200, Json("object", [access_token |-> calls[c].provider])>>,
      <<401, Json("object", [error |-> "invalid_grant", state |-> "1"])>> }

\* the providers call c can be made for
CallProviders(c) == IF c = 1 THEN FirstProviders ELSE SecondProviders

PairRegistries ==
    { add(add(add(<<>>, "Google", Config(TRUE, FALSE, TokenEndpoint, RedirectPage)),
              "google", Config(TRUE, FALSE, Null, RedirectPage)),
          "Custom", Config(TRUE, FALSE, Null, RedirectPage)) }

PairInit ==
    /\ endpoints \in PairRegistries
    /\ tokens = <<>>
    /\ host \in {"addin", "web", "throws"}
    /\ crypto \in BOOLEAN
    /\ hasDialogAPI = "null"
    /\ calls = [c \in BothCalls |-> IdleCall]
    /\ probe = NoProbe

PairNext ==
    \/ \E c \in DOMAIN calls : \E p \in CallProviders(c), r1 \in RandomValues :
          authenticate(c, p, FALSE, 0, r1, 0, FALSE)
    \/ \E c \in DOMAIN calls : \E p \in CallProviders(c), r1 \in RandomValues :
          useMicrosoftTeamsAuth(c, p, FALSE, 0, r1, 0)
    \/ \E c \in DOMAIN calls : \E url \in WindowShows(c) : SharedPollTick(c, url)
    \/ \E c \in DOMAIN calls, ok \in BOOLEAN : DialogCallback(c, ok)
    \/ \E c \in DOMAIN calls : \E message \in FlowUrls(c) :
          calls[c].received = 0 /\ DialogMessageReceived(c, message)
    \/ \E c \in DOMAIN calls : \E message \in FlowUrls(c) : TeamsSuccess(c, message)
    \/ \E c \in DOMAIN calls : TeamsFailure(c)
    \/ \E c \in DOMAIN calls : \E r \in FlowResponses(c) : XhrLoad(c, TRUE, r[1], r[2])
    \/ \E c \in DOMAIN calls : XhrError(c, TRUE)
    \/ \E h \in {"addin", "web"} : HostChanges(h)

PairSpec == PairInit /\ [][PairNext]_vars

(***************************************************************************)
(* Properties: the cache check and the endpoint lookup.                    *)
(***************************************************************************)
\* a step that is authenticate(p, force) made at time t
AuthCall(c, p, force, t) ==
    \E r1 \in RandomValues, r2 \in RandomValues, blocked \in BOOLEAN :
        authenticate(c, p, force, t, r1, r2, blocked)

\* a step that is useMicrosoftTeamsAuth(p, force) made at time t
TeamsCall(c, p, force, t) ==
    \E r1 \in RandomValues, r2 \in RandomValues :
        useMicrosoftTeamsAuth(c, p, force, t, r1, r2)

\* the cache holds a token for p that has not expired at time t
Fresh(p, t) == p \in DOMAIN tokens /\ ~hasExpired(StorageGet(tokens, p), t)

\* C1: when the cache holds a non-expired token for p, authenticate(p) and
\* useMicrosoftTeamsAuth(p) without force resolve with exactly that token,
\* open no transport, generate no login parameters and leave the token
\* cache as it was.
C1_CacheHitResolvesCached ==
    [][\A c \in CallIds, p \in Providers, t \in Times :
          ((AuthCall(c, p, FALSE, t) \/ TeamsCall(c, p, FALSE, t)) /\ Fresh(p, t))
          => /\ calls'[c].status = "resolved"
             /\ calls'[c].value = Value(tokens[p])
             /\ calls'[c].opened = 0
             /\ calls'[c].transport = "none"
             /\ calls'[c].loginParams = 0
             /\ tokens' = tokens]_vars

\* a call was answered from the cache: resolved with the cached token, no
\* transport opened
C1_Witness ==
    \E c \in CallIds :
        /\ calls[c].status = "resolved"
        /\ calls[c].provider \in DOMAIN tokens
        /\ calls[c].value = Value(tokens[calls[c].provider])
        /\ calls[c].opened = 0
        /\ calls[c].received = 0

\* getLoginParams throws for this endpoint on this platform
LoginParamsThrow(p) == getLoginParams(endpoints[p], crypto, 0, 0).threw

C3_UnknownEndpointRejects ==
    [][\A c \in CallIds, p \in Providers, force \in BOOLEAN, t \in Times :
          ((AuthCall(c, p, force, t) \/ TeamsCall(c, p, force, t))
              /\ p \notin DOMAIN endpoints /\ (force \/ ~Fresh(p, t)))
          => /\ calls'[c].status = "rejected"
             /\ calls'[c].value = OAuthError(MsgNoEndpoint, Undefined)
             /\ calls'[c].loginParams = 0
             /\ calls'[c].opened = 0
             /\ calls'[c].transport = "none"
             /\ tokens' = tokens]_vars

\* a call for a provider without an endpoint was rejected
C3_Witness ==
    \E c \in CallIds :
        /\ calls[c].api # "none"
        /\ calls[c].provider \notin DOMAIN endpoints
        /\ calls[c].status = "rejected"
        /\ calls[c].value = OAuthError(MsgNoEndpoint, Undefined)

(***************************************************************************)
(* Properties: the transport callbacks.                                    *)
(***************************************************************************)
\* a step in which a callback of call c is handed the redirect url: the
\* popup's poll callback, the dialog's message handler or the Teams success
\* callback
Redirected(c, url) ==
    \/ PollTick(c, url)
    \/ DialogMessageReceived(c, url)
    \/ TeamsSuccess(c, url)

\* what getToken makes of url for call c
ResultOf(c, url) == getToken(url, endpoints[calls[c].provider].redirectUrl, "#")

\* the endpoint of call c has state enabled and the state field of the parsed
\* redirect is not numerically the state generated for the call
StateMismatch(c, url) ==
    /\ endpoints[calls[c].provider].state
    /\ ResultOf(c, url).kind = "params"
    /\ ToNumber(Get(ResultOf(c, url).params, "state")) # calls[c].state

\* the step sends no exchange request for call c and writes no token
NoExchangeNoWrite(c) ==
    /\ calls'[c].xhrFollowed = calls[c].xhrFollowed
    /\ calls'[c].xhrOrphans = calls[c].xhrOrphans
    /\ calls'[c].writes = calls[c].writes
    /\ tokens' = tokens

\* C4: on the popup, the dialog and the Teams channel alike, when the
\* endpoint has state enabled and the redirect's state field is not
\* numerically the state generated for the attempt (a missing field
\* included), a pending call is rejected with the state-verification error,
\* no exchange request is sent and the token cache is not written, whatever
\* else the payload carries (access_token, code, error or nothing); a
\* payload that cannot be parsed sends no request and writes nothing either.
C4_StateMismatchRejects ==
    [][\A c \in CallIds :
        \A url \in CallUrls(c) :
          /\ (Redirected(c, url) /\ StateMismatch(c, url))
              => /\ NoExchangeNoWrite(c)
                 /\ IF calls[c].status = "pending"
                    THEN /\ calls'[c].status = "rejected"
                         /\ calls'[c].value = OAuthError(MsgState, Undefined)
                    ELSE /\ calls'[c].status = calls[c].status
                         /\ calls'[c].value = calls[c].value
          /\ (Redirected(c, url) /\ ResultOf(c, url).kind = "threw")
              => NoExchangeNoWrite(c)]_vars

\* a call was rejected with the state-verification error by a redirect
C4_Witness ==
    \E c \in CallIds :
        /\ calls[c].received > 0
        /\ endpoints[calls[c].provider].state
        /\ calls[c].status = "rejected"
        /\ calls[c].value = OAuthError(MsgState, Undefined)
        /\ calls[c].writes = 0

\* C5: in the popup transport, once the user has closed the popup before its
\* url matched the redirect prefix, the call is eventually rejected with the
\* 'Popup window was closed' error.
C5_ClosedPopupEventuallyRejected ==
    \A c \in CallIds :
        (calls[c].surface = "userClosed")
            ~> (/\ calls[c].status = "rejected"
                /\ calls[c].value = OAuthError(MsgPopupClosed, Undefined))

\* C6: in the dialog transport, once the user has closed the dialog before
\* any message was delivered, the call is eventually rejected.
C6_ClosedDialogEventuallyRejected ==
    \A c \in CallIds :
        (calls[c].surface = "dialogUserClosed") ~> (calls[c].status = "rejected")

\* C7: on every transport, when parsing the redirect payload throws in the
\* callback of a pending call, the callback rejects the call.
C7_ParseFailureRejects ==
    [][\A c \in CallIds :
        \A url \in CallUrls(c) :
          (Redirected(c, url) /\ ResultOf(c, url).kind = "threw"
              /\ calls[c].status = "pending")
          => calls'[c].status = "rejected"]_vars

\* C8: the dialog transport acts on one message only: a message delivered
\* to a dialog that was already handed one sends no exchange request and
\* writes no token.
C8_LaterMessagesHaveNoEffect ==
    [][\A c \in CallIds :
        \A message \in CallUrls(c) :
          (DialogMessageReceived(c, message) /\ calls[c].received >= 1)
          => NoExchangeNoWrite(c)]_vars

(***************************************************************************)
(* Properties: the code exchange.                                          *)
(***************************************************************************)
\* the response is HTTP 200 with a JSON object that has access_token
TokenResponse(httpStatus, body) ==
    httpStatus = 200 /\ body.json = "object" /\ "access_token" \in DOMAIN body.fields

\* C9: with a tokenUrl set, the exchange resolves and writes the token cache
\* exactly when the response is HTTP 200 with a body that has access_token:
\* the body is then stored under endpoint.provider and the promise resolves
\* with it; on any other response, and on a network failure, the promise
\* rejects and the token cache is left as it was.
C9_ExchangeResolvesOnlyOnToken ==
    [][\A c \in CallIds :
        /\ \A r \in Responses :
              XhrLoad(c, TRUE, r[1], r[2])
              => IF TokenResponse(r[1], r[2])
                 THEN /\ calls'[c].status = "resolved"
                      /\ calls'[c].value = Value(r[2].fields)
                      /\ tokens' = TokensAdd(tokens, endpoints[calls[c].provider].provider,
                                             r[2].fields)
                 ELSE /\ calls'[c].status = "rejected"
                      /\ tokens' = tokens
        /\ XhrError(c, TRUE)
              => /\ calls'[c].status = "rejected"
                 /\ tokens' = tokens]_vars

\* an exchange resolved the call with the token of the response, which is in
\* the cache
C9_Witness ==
    \E c \in CallIds :
        /\ calls[c].status = "resolved"
        /\ calls[c].value = Value([access_token |-> "X"])
        /\ calls[c].provider \in DOMAIN tokens
        /\ tokens[calls[c].provider]["access_token"] = "X"

\* the response is HTTP 200 and its body was parsed to a value without
\* access_token
ParsedWithoutToken(httpStatus, body) ==
    /\ httpStatus = 200
    /\ body.json # "invalid"
    /\ ~TokenResponse(httpStatus, body)

\* C10 as stated: an HTTP 200 response whose parsed body has no access_token
\* rejects the exchange with the 'No access_token or code could be parsed.'
\* error, whatever the body.
C10_NoTokenIsOneError ==
    [][\A c \in CallIds :
        \A r \in Responses :
          (XhrLoad(c, TRUE, r[1], r[2]) /\ ParsedWithoutToken(r[1], r[2]))
          => /\ calls'[c].status = "rejected"
             /\ calls'[c].value = OAuthError(MsgNoParse, Undefined)]_vars

\* C10: an HTTP 200 response whose parsed body has no access_token rejects
\* the exchange and leaves the cache alone; the error is the 'No
\* access_token or code could be parsed.' one only for a null body; for an
\* object it is an OAuthError made of the body's error and state fields
\* (both undefined for an empty object), and for any other JSON value the
\* 'An error occured while parsing the response' one.
C10_NoTokenErrorByBody ==
    [][\A c \in CallIds :
        \A r \in Responses :
          (XhrLoad(c, TRUE, r[1], r[2]) /\ ParsedWithoutToken(r[1], r[2]))
          => /\ calls'[c].status = "rejected"
             /\ tokens' = tokens
             /\ calls'[c].value =
                  CASE r[2].json = "null" -> OAuthError(MsgNoParse, Undefined)
                    [] r[2].json = "object" ->
                         OAuthError(Get(r[2].fields, "error"), Get(r[2].fields, "state"))
                    [] r[2].json = "primitive" ->
                         OAuthError(MsgExchangeParse, Undefined)]_vars

\* an exchange was rejected with the error and state fields of the response
C10_Witness ==
    \E c \in CallIds :
        /\ calls[c].status = "rejected"
        /\ calls[c].value = OAuthError("invalid_grant", "1")
        /\ calls[c].writes = 0

\* the redirect handed to a callback of the pending call c parses to a result
\* with a code field that passes the state check, and the endpoint has no
\* tokenUrl
CodeWithoutTokenUrl(c, url) ==
    /\ Redirected(c, url)
    /\ calls[c].status = "pending"
    /\ endpoints[calls[c].provider].tokenUrl = Null
    /\ ResultOf(c, url).kind = "params"
    /\ "code" \in DOMAIN ResultOf(c, url).params
    /\ ~StateMismatch(c, url)

\* authenticate(p) without force at time t would answer from the cache
WouldHit(cache, p, t) == CacheHit(hasExpired(StorageGet(cache, p), t), FALSE)

\* C11 as stated: when the endpoint has no tokenUrl, a code redirect resolves
\* the call with the code payload, sends no request and writes nothing to
\* the token cache, and afterwards authenticate for the same provider
\* without force does not answer from the cache, whenever it is called.
C11_CodeThenAlwaysTransport ==
    [][\A c \in CallIds :
        \A url \in CallUrls(c) :
          CodeWithoutTokenUrl(c, url)
          => /\ calls'[c].status = "resolved"
             /\ calls'[c].value = Value(ResultOf(c, url).params)
             /\ NoExchangeNoWrite(c)
             /\ \A t \in Times : ~WouldHit(tokens', calls[c].provider, t)]_vars

\* C11: when the endpoint has no tokenUrl, a code redirect resolves the call
\* with the code payload itself, sends no request and leaves the token cache
\* as it was before the attempt; so authenticate for the same provider
\* without force answers from the cache afterwards exactly when it would
\* have before: it goes through a transport again unless the cache already
\* held an unexpired token (the attempt was forced).
C11_CodeWithoutTokenUrlIsResult ==
    [][\A c \in CallIds :
        \A url \in CallUrls(c) :
          CodeWithoutTokenUrl(c, url)
          => /\ calls'[c].status = "resolved"
             /\ calls'[c].value = Value(ResultOf(c, url).params)
             /\ NoExchangeNoWrite(c)
             /\ \A t \in Times :
                  WouldHit(tokens', calls[c].provider, t)
                      <=> Fresh(calls[c].provider, t)]_vars

\* a call was resolved with a code payload, nothing was written, and the
\* cache holds no token for its provider
C11_Witness ==
    \E c \in CallIds :
        /\ calls[c].status = "resolved"
        /\ calls[c].received = 1
        /\ calls[c].value = Value([code |-> "XYZ"])
        /\ endpoints[calls[c].provider].tokenUrl = Null
        /\ calls[c].writes = 0
        /\ calls[c].provider \notin DOMAIN tokens

\* the redirect handed to a callback of call c parses to a result that
\* passes the state check
Validated(c, url) ==
    /\ Redirected(c, url)
    /\ ResultOf(c, url).kind = "params"
    /\ ~StateMismatch(c, url)

\* C12: whenever a validated redirect result of a pending call contains
\* access_token, with or without a code field beside it, the result is
\* written to the token cache under the endpoint's provider and the call
\* resolves with it, and no exchange request is sent.
C12_AccessTokenMeansToken ==
    [][\A c \in CallIds :
        \A url \in CallUrls(c) :
          (Validated(c, url) /\ calls[c].status = "pending"
              /\ "access_token" \in DOMAIN ResultOf(c, url).params)
          => /\ calls'[c].status = "resolved"
             /\ calls'[c].value = Value(ResultOf(c, url).params)
             /\ tokens' = TokensAdd(tokens, endpoints[calls[c].provider].provider,
                                    ResultOf(c, url).params)
             /\ calls'[c].xhrFollowed = calls[c].xhrFollowed
             /\ calls'[c].xhrOrphans = calls[c].xhrOrphans]_vars

\* C13: on every transport, a validated redirect result with neither
\* access_token nor code rejects a pending call with an OAuthError made of
\* the result's error and state fields and never resolves a call; no request
\* is sent and the token cache is not written.
C13_NeitherMeansError ==
    [][\A c \in CallIds :
        \A url \in CallUrls(c) :
          (Validated(c, url)
              /\ "access_token" \notin DOMAIN ResultOf(c, url).params
              /\ "code" \notin DOMAIN ResultOf(c, url).params)
          => /\ NoExchangeNoWrite(c)
             /\ IF calls[c].status = "pending"
                THEN /\ calls'[c].status = "rejected"
                     /\ calls'[c].value =
                          OAuthError(Get(ResultOf(c, url).params, "error"),
                                     Get(ResultOf(c, url).params, "state"))
                ELSE /\ calls'[c].status = calls[c].status
                     /\ calls'[c].value = calls[c].value]_vars

\* a redirect carrying error and state rejected the call with both
C13_Witness ==
    \E c \in CallIds :
        /\ calls[c].received = 1
        /\ calls[c].status = "rejected"
        /\ calls[c].value = OAuthError("access_denied", "1")
        /\ calls[c].writes = 0

\* what the validation chain prescribes for the redirect url handed to a
\* callback of the pending call c
ChainPrescribes(c, url) ==
    IF ResultOf(c, url).kind = "threw"
    THEN calls'[c].status = "rejected" /\ NoExchangeNoWrite(c)
    ELSE IF StateMismatch(c, url)
    THEN /\ calls'[c].status = "rejected"
         /\ calls'[c].value = OAuthError(MsgState, Undefined)
         /\ NoExchangeNoWrite(c)
    ELSE IF "code" \in DOMAIN ResultOf(c, url).params
    THEN /\ tokens' = tokens
         /\ IF endpoints[calls[c].provider].tokenUrl = Null
            THEN /\ calls'[c].status = "resolved"
                 /\ calls'[c].value = Value(ResultOf(c, url).params)
                 /\ ~calls'[c].xhrFollowed
            ELSE /\ calls'[c].status = "locked"
                 /\ calls'[c].xhrFollowed
    ELSE IF "access_token" \in DOMAIN ResultOf(c, url).params
    THEN /\ calls'[c].status = "resolved"
         /\ calls'[c].value = Value(ResultOf(c, url).params)
         /\ tokens' = TokensAdd(tokens, endpoints[calls[c].provider].provider,
                                ResultOf(c, url).params)
    ELSE /\ calls'[c].status = "rejected"
         /\ calls'[c].value = OAuthError(Get(ResultOf(c, url).params, "error"),
                                         Get(ResultOf(c, url).params, "state"))
         /\ NoExchangeNoWrite(c)

\* C14: when displayDialogAsync yields no dialog the call is rejected, when
\* the Teams channel calls the failure callback the call is rejected, and
\* neither writes the token cache; the Teams success callback takes the
\* redirect through the same parse, state check and classification as the
\* dialog's message handler.
C14_TransportFailuresReject ==
    [][\A c \in CallIds :
        /\ DialogCallback(c, FALSE)
              => /\ calls'[c].status = "rejected"
                 /\ calls'[c].value = OAuthError(MsgDialogFailed, Undefined)
                 /\ NoExchangeNoWrite(c)
        /\ TeamsFailure(c)
              => /\ calls'[c].status = "rejected"
                 /\ calls'[c].value = OAuthError(MsgDialogLaunch, Undefined)
                 /\ NoExchangeNoWrite(c)
        /\ \A url \in CallUrls(c) :
              ((TeamsSuccess(c, url) \/ DialogMessageReceived(c, url))
                  /\ calls[c].status = "pending")
              => ChainPrescribes(c, url)]_vars

\* the Teams channel called the failure callback and the call was rejected
C14_Witness ==
    \E c \in CallIds :
        /\ calls[c].transport = "teams"
        /\ calls[c].surface = "teamsDone"
        /\ calls[c].received = 0
        /\ calls[c].status = "rejected"
        /\ calls[c].value = OAuthError(MsgDialogLaunch, Undefined)

(***************************************************************************)
(* Properties: getToken.                                                   *)
(***************************************************************************)
\* getToken has run on the probe's arguments
TokenProbed == probe.op = "getToken" /\ probe.done

\* the url of the probe once exclude is removed
ProbeRest ==
    IF probe.exclude # <<>> THEN RemoveFirst(probe.url, probe.exclude) ELSE probe.url

\* C15: getToken returns undefined whenever the url, once exclude is
\* removed, holds no delimiter.
C15_NoDelimiterGivesUndefined ==
    (TokenProbed /\ IndexOf(ProbeRest, <<probe.delimiter>>) = 0)
        => probe.result = NoParams

\* blobs that are '&'-joined pieces without a raw slash or a broken escape
PlainPayloads ==
    { blob \in ProbePayloads :
        \A i \in 1 .. Len(blob) : blob[i] # "/" /\ blob[i] # "%" }

\* the pairs of a blob read piece by piece: each piece is cut at its first
\* '=', both sides are percent-decoded, a later piece overrides an earlier one
RECURSIVE PairsFrom(_, _, _)
PairsFrom(pieces, n, acc) ==
    IF n > Len(pieces) THEN acc
    ELSE IF IndexOf(pieces[n], <<"=">>) <= 1 THEN PairsFrom(pieces, n + 1, acc)
    ELSE PairsFrom(pieces, n + 1,
             (decodeURIComponent(SubSeq(pieces[n], 1, IndexOf(pieces[n], <<"=">>) - 1))
                 :> decodeURIComponent(SubSeq(pieces[n], IndexOf(pieces[n], <<"=">>) + 1,
                                              Len(pieces[n]))))
             @@ acc)

PairsOf(blob) == PairsFrom(Split(blob, "&"), 1, <<>>)

\* C16: for a url whose delimiter is followed by '&'-joined key=value
\* pieces, getToken returns the pairs, percent-decoded, the last duplicate
\* winning; '#' and '?' urls are read alike, whatever prefix is excluded.
C16_ParsesKeyValuePairs ==
    /\ \A d \in ProbeDelimiters, lead \in {<<>>, <<"/">>}, blob \in PlainPayloads :
          (TokenProbed /\ probe.url = RedirectPage \o <<d>> \o lead \o blob
                       /\ probe.delimiter = d)
              => probe.result = Parsed(PairsOf(blob))
    /\ (TokenProbed /\ probe.url = RedirectPage \o <<"?", "error", "=", "access_denied">>
                    /\ probe.exclude = RedirectPage /\ probe.delimiter = "?")
          => probe.result = Parsed([error |-> "access_denied"])
    /\ (TokenProbed /\ probe.url = RedirectPage \o <<"#", "k", "=", "1", "&", "k", "=", "2">>
                    /\ probe.delimiter = "#")
          => probe.result = Parsed([k |-> "2"])
    /\ (TokenProbed /\ probe.url = RedirectPage \o <<"#", "a", "%26", "b", "=", "1">>
                    /\ probe.delimiter = "#")
          => probe.result = Parsed(("a&b" :> "1"))

C16_Witness ==
    /\ TokenProbed
    /\ probe.url = RedirectPage \o <<"#", "access_token", "=", "ABC", "&", "state", "=", "42">>
    /\ probe.exclude = RedirectPage
    /\ probe.delimiter = "#"
    /\ probe.result = Parsed([access_token |-> "ABC", state |-> "42"])

(***************************************************************************)
(* Properties: getLoginParams.                                             *)
(***************************************************************************)
\* getLoginParams has run on the probe's arguments and returned
LoginProbed == probe.op = "getLoginParams" /\ probe.done /\ ~probe.result.threw

\* the '&'-separated segments after the first '?' of a url, and their names
SegmentsOf(url) == Split(SubSeq(url, IndexOf(url, <<"?">>) + 1, Len(url)), "&")
NamesOf(segs) == [i \in 1 .. Len(segs) |-> segs[i][1]]
Occurrences(names, name) == Cardinality({i \in 1 .. Len(names) : names[i] = name})

\* the names the claim lists for a configuration, in its order
ListedNames(config, r1, r2) ==
    <<"response_type", "client_id", "redirect_uri">>
    \o (IF config.scope # Null THEN <<"scope">> ELSE <<>>)
    \o (IF config.resource # Null THEN <<"resource">> ELSE <<>>)
    \o (IF config.state /\ r1 > 0 THEN <<"state">> ELSE <<>>)
    \o (IF config.nonce /\ r2 > 0 THEN <<"nonce">> ELSE <<>>)
    \o (IF config.extraQueryParameters # Null
        THEN <<config.extraQueryParameters[1]>> ELSE <<>>)

C18_StateEmittedAndNonZero ==
    (LoginProbed /\ probe.config.state)
        => /\ probe.result.state # 0
           /\ \E i \in 1 .. Len(SegmentsOf(probe.result.url)) :
                 SegmentsOf(probe.result.url)[i]
                     = <<"state", "=", ToString(probe.result.state)>>

(***************************************************************************)
(* Properties: the endpoint registry.                                      *)
(***************************************************************************)
\* the stored entry carries the override's value for every property that
\* both the overrides and the preset's defaults carry
OverridesWin(key, overrides, defaults) ==
    \A f \in DOMAIN overrides \cap DOMAIN defaults : endpoints'[key][f] = overrides[f]

\* C19: after register<Provider>(clientId, overrides) the stored
\* configuration has the override's value for every field that both the
\* overrides and the provider's defaults name.
C19_OverridesWin ==
    [][ /\ \A id \in ClientIds, o \in Overrides, w \in BOOLEAN :
              /\ registerGoogleAuth(id, o, w)
                    => OverridesWin("Google", o, GoogleDefaults(id))
              /\ registerMicrosoftAuth(id, o, w)
                    => OverridesWin("Microsoft", o, MicrosoftDefaults(id))
              /\ registerFacebookAuth(id, o, w)
                    => OverridesWin("Facebook", o, FacebookDefaults(id))
        /\ \A id \in ClientIds, t \in Tenants, o \in Overrides, w \in BOOLEAN :
              registerAzureADAuth(id, t, o, w)
                  => OverridesWin("AzureAD", o, AzureADDefaults(id, t)) ]_vars

\* the redirectUrl add stores for a caller's value
StoredRedirect(given) == IF given = Null THEN Origin ELSE given

\* the redirectUrl a preset stores: the overrides' one when they carry it
PresetRedirect(overrides) ==
    IF "redirectUrl" \in DOMAIN overrides THEN overrides.redirectUrl ELSE Origin

\* C20: every entry stored under key k has provider k and a redirectUrl,
\* the caller's when given and the origin otherwise; add(k, config) puts
\* config under k whatever was there and leaves the other keys' entries
\* as they were.
C20_RegistryEntries ==
    [][ /\ \A k \in DOMAIN endpoints' :
              endpoints'[k].provider = k /\ endpoints'[k].redirectUrl # Null
        /\ \A k \in AddKeys, g \in AddConfigs :
              AddEndpoint(k, g)
                  => /\ DOMAIN endpoints' = DOMAIN endpoints \cup {k}
                     /\ endpoints'[k] = [g EXCEPT !.provider = k,
                                                  !.redirectUrl = StoredRedirect(@)]
                     /\ \A j \in DOMAIN endpoints \ {k} : endpoints'[j] = endpoints[j]
        /\ \A id \in ClientIds, o \in Overrides, w \in BOOLEAN :
              /\ registerGoogleAuth(id, o, w)
                    => endpoints'["Google"].redirectUrl = PresetRedirect(o)
              /\ registerMicrosoftAuth(id, o, w)
                    => endpoints'["Microsoft"].redirectUrl = PresetRedirect(o)
              /\ registerFacebookAuth(id, o, w)
                    => endpoints'["Facebook"].redirectUrl = PresetRedirect(o)
        /\ \A id \in ClientIds, t \in Tenants, o \in Overrides, w \in BOOLEAN :
              registerAzureADAuth(id, t, o, w)
                  => endpoints'["AzureAD"].redirectUrl = PresetRedirect(o) ]_vars

\* an add over an existing entry, next to a preset's entry: the Google
\* entry is the one of a later add without redirectUrl, the AzureAD one
\* is the preset's
C20_Witness ==
    /\ DOMAIN endpoints = {"Custom", "Google", "AzureAD"}
    /\ endpoints["Google"] = [Config(TRUE, FALSE, Null, Origin) EXCEPT !.provider = "Google"]
    /\ endpoints["Custom"].redirectUrl = RedirectPage
    /\ endpoints["AzureAD"].provider = "AzureAD"
    /\ endpoints["AzureAD"].redirectUrl = Origin

(***************************************************************************)
(* Properties: the order of the steps of one call.                         *)
(***************************************************************************)
\* exchange requests of call c in flight, in the state s of the calls
InFlight(s, c) == (IF s[c].xhrFollowed THEN 1 ELSE 0) + s[c].xhrOrphans

\* the step hands call c a redirect that parses, passes the state check and
\* carries the field named
ValidatedWith(c, field) ==
    \E url \in CallUrls(c) :
        Validated(c, url) /\ field \in DOMAIN ResultOf(c, url).params

\* the step is a token response to an exchange request of call c
TokenResponseTo(c) ==
    \E followed \in BOOLEAN, r \in Responses :
        XhrLoad(c, followed, r[1], r[2]) /\ TokenResponse(r[1], r[2])

\* C21: within one call the cache check precedes the opening of a
\* transport, a token-cache write follows the parsing and state validation
\* of a redirect of that call, an exchange request is sent only by a
\* validated code redirect, and on the code path the cache is written only
\* by a successful exchange response.
C21_StepsOrdered ==
    [][\A c \in CallIds :
        \* the transport is opened by the step that made the cache check,
        \* and only when the check did not answer the call
        /\ calls'[c].opened # calls[c].opened
              => /\ calls[c].status = "idle"
                 /\ calls'[c].opened = 1
                 /\ calls'[c].received = 0
                 /\ tokens' = tokens
                 /\ \A p \in Providers, force \in BOOLEAN, t \in Times :
                        (AuthCall(c, p, force, t) \/ TeamsCall(c, p, force, t))
                            => (force \/ ~Fresh(p, t))
        \* a request is sent by a validated code redirect
        /\ InFlight(calls', c) > InFlight(calls, c)
              => /\ ValidatedWith(c, "code")
                 /\ calls'[c].writes = calls[c].writes
                 /\ tokens' = tokens
        \* a write follows a validated token redirect or a token response
        /\ calls'[c].writes # calls[c].writes
              => /\ calls[c].opened = 1
                 /\ calls'[c].writes = calls[c].writes + 1
                 /\ \/ ValidatedWith(c, "access_token") /\ calls'[c].received > 0
                    \/ TokenResponseTo(c) /\ InFlight(calls, c) > 0
        /\ (tokens' # tokens) => \E d \in CallIds : calls'[d].writes # calls[d].writes]_vars

\* a call went the whole code path: opened a popup, took a validated code
\* redirect, and the token response wrote the cache
C21_Witness ==
    \E c \in CallIds :
        /\ calls[c].transport = "popup"
        /\ endpoints[calls[c].provider].state
        /\ calls[c].opened = 1
        /\ calls[c].received = 1
        /\ calls[c].writes = 1
        /\ InFlight(calls, c) = 0
        /\ calls[c].status = "resolved"
        /\ calls[c].value = Value([access_token |-> "X"])

(***************************************************************************)
(* Properties: the choice of the transport.                                *)
(***************************************************************************)
PairProviders == FirstProviders \cup SecondProviders

\* the call for p gets past the cache check and the endpoint lookup
ReachesDispatch(p) == p \in DOMAIN endpoints /\ ~Fresh(p, 0)

\* the capability flag after a read: computed when it has no value yet
\* (false when the probe throws), kept otherwise
FlagAfterRead ==
    IF hasDialogAPI = "null"
    THEN (IF host = "addin" THEN "true" ELSE "false")
    ELSE hasDialogAPI

\* the transport of a call never changes once the call is made, and the
\* flag never changes once it has a value
ChosenOnce ==
    /\ \A c \in BothCalls :
          calls[c].status # "idle"
              => calls'[c].transport = calls[c].transport
                 /\ calls'[c].opened = calls[c].opened
    /\ hasDialogAPI # "null" => hasDialogAPI' = hasDialogAPI
    /\ hasDialogAPI' # hasDialogAPI
          => \E c \in BothCalls, p \in PairProviders :
                AuthCall(c, p, FALSE, 0) /\ ReachesDispatch(p)

DecodablePayloads ==
    { blob \in ProbePayloads : \A i \in 1 .. Len(blob) : blob[i] # "%" }

\* C23: getToken reads the segment after the delimiter, strips a single
\* leading '/' from it and nothing else: a '/' inside a parameter value is
\* preserved in the parsed result.
C23_OnlyLeadingSlashStripped ==
    \A d \in ProbeDelimiters, lead \in {<<>>, <<"/">>}, blob \in DecodablePayloads :
        (TokenProbed /\ probe.url = RedirectPage \o <<d>> \o lead \o blob
                     /\ probe.delimiter = d)
            => probe.result = Parsed(PairsOf(blob))

(***************************************************************************)
(* Properties: the dialog size.                                            *)
(***************************************************************************)
\* _determineDialogSize has run on the probe's screen
SizeProbed == probe.op = "determineDialogSize" /\ probe.done

\* the size aimed at for a screen width, and the pixels the claim gives a
\* dimension: the target unless it exceeds the screen
TargetWidth(screenWidth) == IF screenWidth <= 640 THEN 640 ELSE 1024
TargetHeight(screenWidth) == IF screenWidth <= 640 THEN 480 ELSE 768
ClampedWhenExceeding(target, dimension) ==
    IF target <= dimension THEN target ELSE dimension - 30

\* C24: each pixel dimension is the target (640x480 for a screen up to 640
\* wide, 1024x768 otherwise) when the target does not exceed the screen
\* dimension and the screen dimension less 30 when it does; the percentage
\* form is pixel * 100 / screen dimension; a 500x400 screen gives 470x370.
C24_ClampsOnlyWhenExceeding ==
    SizeProbed =>
        /\ probe.result.toPixels.width
              = ClampedWhenExceeding(TargetWidth(probe.screenWidth), probe.screenWidth)
        /\ probe.result.toPixels.height
              = ClampedWhenExceeding(TargetHeight(probe.screenWidth), probe.screenHeight)
        /\ probe.result.width.num * probe.screenWidth
              = probe.result.toPixels.width * 100 * probe.result.width.den
        /\ probe.result.height.num * probe.screenHeight
              = probe.result.toPixels.height * 100 * probe.result.height.den
        /\ (probe.screenWidth = 500 /\ probe.screenHeight = 400)
              => probe.result.toPixels = [width |-> 470, height |-> 370]

(***************************************************************************)
(* Properties: two calls for different providers.                          *)
(***************************************************************************)
\* every token a call resolved with, and every cache entry, is one issued
\* for its own provider
OwnTokens(cs, cache) ==
    /\ \A c \in BothCalls :
          (cs[c].status = "resolved" /\ "access_token" \in DOMAIN cs[c].value.data)
              => cs[c].value.data["access_token"] = cs[c].provider
    /\ \A p \in DOMAIN cache : cache[p]["access_token"] = p

\* the step is a callback, a transport answer or a response of call c
StepOf(c) ==
    \/ \E url \in WindowShows(c) : SharedPollTick(c, url)
    \/ \E ok \in BOOLEAN : DialogCallback(c, ok)
    \/ \E message \in FlowUrls(c) : DialogMessageReceived(c, message)
    \/ \E message \in FlowUrls(c) : TeamsSuccess(c, message)
    \/ TeamsFailure(c)
    \/ \E r \in FlowResponses(c) : XhrLoad(c, TRUE, r[1], r[2])
    \/ XhrError(c, TRUE)

\* C25: two calls for different providers are independent: a step of one
\* call leaves the other call as it is and writes the cache under its own
\* provider only, the redirect a call's poll callback reads is the answer
\* to its own login url (its own state), and each call resolves with, and
\* caches, a token of its own provider.
C25_CallsIndependent ==
    [][/\ \A c \in BothCalls :
            /\ StepOf(c)
                  => /\ \A d \in BothCalls \ {c} : calls'[d] = calls[d]
                     /\ \A p \in DOMAIN tokens \ {calls[c].provider} :
                            p \in DOMAIN tokens' /\ tokens'[p] = tokens[p]
                     /\ DOMAIN tokens' \subseteq DOMAIN tokens \cup {calls[c].provider}
            /\ \A url \in WindowShows(c) :
                  (SharedPollTick(c, url) /\ url # CrossOrigin) => url \in FlowUrls(c)
       /\ OwnTokens(calls', tokens')]_vars
====
